---------------------------- MODULE Spec2Model ----------------------------
(***************************************************************************)
(* A model of the QASM -> QuMIS compiler of                                *)
(* pycqed/instrument_drivers/physical_instruments/_controlbox/             *)
(* qasm_compiler.py (class QASM_QuMIS_Compiler).                           *)
(*                                                                         *)
(* Text is modelled at the granularity of lexemes: a source line is a      *)
(* sequence of lexemes, each either a word (a maximal run of characters    *)
(* that are neither whitespace nor one of "|", ",", "#") or one of the     *)
(* separators " ", "\n", "|", "," and "#".  Two words are never adjacent   *)
(* in a line.  JSON values of the configuration document are records       *)
(* [t |-> <python type>, v |-> <value>].                                   *)
(***************************************************************************)
EXTENDS Integers, Sequences, FiniteSets, TLC

VARIABLES
    cfg,                \* contents of the file config_filename names
    file,               \* contents of the file filename names, or NoFile
    pc,                 \* position of the running compile() call
    err,                \* the exception that ended the last call, or NoErr
    stages,             \* methods entered by the running compile(), in order
    raw_lines,          \* self.raw_lines
    prog_lines,         \* self.prog_lines
    config_loaded,      \* self.config_loaded
    qasm_op_dict,       \* self.qasm_op_dict (NoDict models None)
    physical_qubits,    \* self.physical_qubits
    cycle_time,         \* self.cycle_time
    lut,                \* self.lut
    data,               \* the document load_config read last (line 202)
    raw_event_list,     \* self.raw_event_list
    declared_qubits,    \* self.declared_qubits
    qubit_map,          \* self.qubit_map
    timing_event_list,  \* self.timing_event_list
    timing_grid,        \* self.timing_grid
    qumis_instructions, \* self.qumis_instructions
    i                   \* the cursor i of build_qubit_map

vars == <<cfg, file, pc, err, stages, raw_lines, prog_lines, config_loaded,
          qasm_op_dict, physical_qubits, cycle_time, lut, data, raw_event_list,
          declared_qubits, qubit_map, timing_event_list, timing_grid,
          qumis_instructions, i>>

-----------------------------------------------------------------------------
(* Bounds of the model *)

\* the longest source file, in lines
MaxLines == 3
\* the most operations a configuration document adds
MaxUserOps == 2
\* the most operations on one source line
MaxParallel == 2
\* the most source lines after the declarations of a program with waits
MaxSlotLines == 4

-----------------------------------------------------------------------------
(* Python values *)

INIT_WAITING_TIME == 200000

\* an exception object: its class, the raise site (the start of its message),
\* and the attributes filename and lineno the code sets on it, if any
Exc(kind, site, filename, lineno) ==
    [kind |-> kind, site |-> site, filename |-> filename, lineno |-> lineno]
NoLine == -1
NoErr == Exc("none", "none", "none", NoLine)
\* None as the value of self.qasm_op_dict (a loaded table is never empty)
NoDict == <<>>
\* the key "duration" is absent from an operation's entry
NoDuration == -1

PyInt(n) == [t |-> "int", v |-> n]
PyStr(s) == [t |-> "str", v |-> s]
PyFloat(n) == [t |-> "float", v |-> n]
PyNone == [t |-> "NoneType", v |-> 0]
\* a JSON object kept whole, n telling one such object from another
PyDict(n) == [t |-> "dict", v |-> n]

\* the strings float() and int() accept, with the number they denote; every
\* other word of the model makes them raise ValueError
IntWords == {"0", "1", "2", "5", "+1", "-1"}
IntOfWord(s) ==
    CASE s = "0" -> 0
      [] s = "1" -> 1
      [] s = "2" -> 2
      [] s = "5" -> 5
      [] s = "+1" -> 1
      [] s = "-1" -> -1

\* is_int(s) for a token s of a source line
is_int(s) == s \in IntWords

\* is_number(s): float(s) raises ValueError for a string that denotes no number
\* (TypeError, for None, is not caught: see is_positive_number_raises)
is_number(x) ==
    CASE x.t = "int" -> TRUE
      [] x.t = "float" -> TRUE
      [] x.t = "str" -> x.v \in IntWords
      [] OTHER -> FALSE

\* float(x) where it is defined
float(x) == IF x.t = "str" THEN IntOfWord(x.v) ELSE x.v

\* float(None) raises TypeError, which is_number does not catch
is_positive_number_raises(x) == x.t = "NoneType"

\* a faulty variant of is_positive_number: zero accepted
is_positive_number_OrZero(x) ==
    IF ~is_number(x) THEN FALSE ELSE float(x) >= 0

\* is_positive_number, lines 55-61
is_positive_number(x) ==
    IF ~is_number(x) THEN FALSE ELSE float(x) > 0

\* is_integer_array(arr)
is_integer_array(arr) == \A k \in 1..Len(arr) : arr[k].t = "int"

\* str.lower() of a word
Lower(w) ==
    CASE w = "Qubit" -> "qubit"
      [] w = "QUBIT" -> "qubit"
      [] w = "Map" -> "map"
      [] w = "MAP" -> "map"
      [] w = "I" -> "i"
      [] w = "Init_all" -> "init_all"
      [] w = "Measure" -> "measure"
      [] w = "MEASURE" -> "measure"
      [] w = "X180" -> "x180"
      [] w = "CZ" -> "cz"
      [] w = "Q0" -> "q0"
      [] w = "Q1" -> "q1"
      [] OTHER -> w

-----------------------------------------------------------------------------
(* The operation table: lines 118-163 and load_config, lines 195-237 *)

\* user_op_type, lines 118-122
user_op_type_keys == {"rf", "flux", "measurement"}
\* a faulty variant of user_op_type: "rf" stands for the Wait category
user_op_type_RfIsWait(s) ==
    CASE s = "rf" -> "WAIT"
      [] s = "flux" -> "FLUX"
      [] s = "measurement" -> "MSMT"
user_op_type(s) ==
    CASE s = "rf" -> "RF"
      [] s = "flux" -> "FLUX"
      [] s = "measurement" -> "MSMT"

OpSpec(parameters, type, duration) ==
    [parameters |-> parameters, type |-> type, duration |-> duration]
Item(key, spec) == [key |-> key, spec |-> spec]

\* default_op_dict, lines 124-149: a dict is the sequence of its items in
\* insertion order
default_op_dict ==
    << Item("I", OpSpec(1, "WAIT", NoDuration)),
       Item("qubit", OpSpec(-1, "DECLARE", NoDuration)),
       Item("Init_all", OpSpec(0, "WAIT", NoDuration)),
       Item("Measure", OpSpec(1, "MSMT", 300)),
       Item("Map", OpSpec(2, "MAP", NoDuration)) >>

Keys(d) == {d[k].key : k \in 1..Len(d)}
Lookup(d, key) == (CHOOSE k \in 1..Len(d) : d[k].key = key)

\* a faulty variant of MergeDicts: {**b, **a}, the operands swapped
MergeDicts_DefaultWins(a, b) ==
    [k \in 1..Len(b) |->
        IF b[k].key \in Keys(a) THEN a[Lookup(a, b[k].key)] ELSE b[k]]
    \o SelectSeq(a, LAMBDA it : it.key \notin Keys(b))

\* {**a, **b} (line 218): a's keys keep their place and take b's value where b
\* has the key; b's other keys follow in b's order
MergeDicts(a, b) ==
    [k \in 1..Len(a) |->
        IF a[k].key \in Keys(b) THEN b[Lookup(b, a[k].key)] ELSE a[k]]
    \o SelectSeq(b, LAMBDA it : it.key \notin Keys(a))

\* lower_dict_key, lines 162-163: dict() of the items with lowered keys keeps,
\* for each lowered key, the last item that has it
RECURSIVE LowerFrom(_, _, _)
LowerFrom(d, k, acc) ==
    IF k > Len(d) THEN acc
    ELSE LET lk == Lower(d[k].key)
         IN LowerFrom(d, k + 1,
                [x \in (DOMAIN acc) \cup {lk} |->
                    IF x = lk THEN d[k].spec ELSE acc[x]])
lower_dict_key(origin_dict) == LowerFrom(origin_dict, 1, <<>>)

\* lines 205-216: the user's entries with "type" replaced by its EventType
ConvertUserOps(ops) ==
    [k \in 1..Len(ops) |->
        Item(ops[k].key,
             [ops[k].spec EXCEPT !.type = user_op_type(ops[k].spec.type)])]

HasUnsupportedType(ops) ==
    \E k \in 1..Len(ops) : ops[k].spec.type \notin user_op_type_keys

\* a faulty variant of QubitListRejected: the check left out
QubitListRejected_Never(pq) == FALSE

\* lines 225-228
QubitListRejected(pq) == is_integer_array(pq) = FALSE

\* load_config from line 199 on (config_loaded is False): what it assigns and
\* how it ends.  set_lut / set_pq / set_ct tell whether lines 221 / 224 / 230
\* were reached.
load_config(doc) ==
    IF HasUnsupportedType(doc.ops)
    THEN [err |-> Exc("SyntaxError", "unsupported operation type",
                      "config_filename", NoLine),
          dict |-> NoDict, set_lut |-> FALSE, set_pq |-> FALSE, set_ct |-> FALSE,
          ct |-> PyNone, loaded |-> FALSE]
    ELSE LET dict == lower_dict_key(
                        MergeDicts(default_op_dict, ConvertUserOps(doc.ops)))
         IN IF QubitListRejected(doc.qubit_list)
            THEN [err |-> Exc("ValueError", "qubit list is not an integer array",
                              "none", NoLine),
                  dict |-> dict, set_lut |-> TRUE, set_pq |-> TRUE, set_ct |-> FALSE,
                  ct |-> PyNone, loaded |-> FALSE]
            ELSE IF is_positive_number_raises(doc.cycle_time)
            THEN [err |-> Exc("TypeError", "float() argument", "none", NoLine),
                  dict |-> dict, set_lut |-> TRUE, set_pq |-> TRUE, set_ct |-> TRUE,
                  ct |-> doc.cycle_time, loaded |-> FALSE]
            ELSE IF is_positive_number(doc.cycle_time) = FALSE
            THEN [err |-> Exc("ValueError", "cycle time is not a positive number",
                              "none", NoLine),
                  dict |-> dict, set_lut |-> TRUE, set_pq |-> TRUE, set_ct |-> TRUE,
                  ct |-> doc.cycle_time, loaded |-> FALSE]
            ELSE [err |-> NoErr,
                  dict |-> dict, set_lut |-> TRUE, set_pq |-> TRUE, set_ct |-> TRUE,
                  ct |-> PyFloat(float(doc.cycle_time)), loaded |-> TRUE]

-----------------------------------------------------------------------------
(* Source text: read_file, lines 239-262, and remove_comment, lines 297-301 *)

IsSpace(x) == x \in {" ", "\t", "\n", "\r"}

\* str.strip(' \t\n\r')
RECURSIVE LStrip(_)
LStrip(s) == IF s # <<>> /\ IsSpace(Head(s)) THEN LStrip(Tail(s)) ELSE s
RECURSIVE RStrip(_)
RStrip(s) ==
    IF s # <<>> /\ IsSpace(s[Len(s)]) THEN RStrip(SubSeq(s, 1, Len(s) - 1))
    ELSE s
Strip(s) == RStrip(LStrip(s))

\* the position of the first x in s, or Len(s) + 1
RECURSIVE FindFrom(_, _, _)
FindFrom(s, x, k) ==
    IF k > Len(s) \/ s[k] = x THEN k ELSE FindFrom(s, x, k + 1)
Find(s, x) == FindFrom(s, x, 1)

\* a faulty variant of remove_comment: line 300, the strip, left out
remove_comment_NoStrip(line) == SubSeq(line, 1, Find(line, "#") - 1)

\* remove_comment
remove_comment(line) == Strip(SubSeq(line, 1, Find(line, "#") - 1))

\* str.lower() of a line
LowerLine(line) == [k \in 1..Len(line) |-> Lower(line[k])]

prog_line(number, content) == [number |-> number, content |-> content]

\* lines 249-259; enumerate() numbers the lines from 0
RawLines(lines) ==
    [k \in 1..Len(lines) |-> prog_line(k - 1, Strip(lines[k]))]
RECURSIVE ProgLinesFrom(_, _)
ProgLinesFrom(lines, k) ==
    IF k > Len(lines) THEN <<>>
    ELSE LET line_content == LowerLine(remove_comment(lines[k]))
         IN (IF Len(line_content) = 0 THEN <<>>
             ELSE <<prog_line(k - 1, line_content)>>)
            \o ProgLinesFrom(lines, k + 1)
ProgLines(lines) == ProgLinesFrom(lines, 1)

-----------------------------------------------------------------------------
(* The Event Parser: line_to_event, lines 312-399, and its helpers *)

\* str.split("|")
RECURSIVE SplitBar(_)
SplitBar(s) ==
    LET k == Find(s, "|")
    IN IF k > Len(s) THEN <<s>>
       ELSE <<SubSeq(s, 1, k - 1)>> \o SplitBar(SubSeq(s, k + 1, Len(s)))

\* get_parallel_qasm_ops, lines 408-411
get_parallel_qasm_ops(op_line) ==
    LET segs == SplitBar(op_line)
    IN [k \in 1..Len(segs) |->
           Strip([j \in 1..Len(segs[k]) |->
                     IF segs[k][j] = "," THEN " " ELSE segs[k][j]])]

\* str.split()
SplitWords(seg) == SelectSeq(seg, LAMBDA x : ~IsSpace(x))

\* get_qasm_op_name and get_qasm_op_params (both raise ValueError on '')
get_qasm_op_name(qasm_op) == SplitWords(qasm_op)[1]
get_qasm_op_params(qasm_op) == Tail(SplitWords(qasm_op))

\* a faulty variant of is_single_line_op: MAP forgotten
is_single_line_op_NoMap(qasm_op_type) ==
    qasm_op_type \in {"WAIT", "DECLARE"}

\* is_single_line_op, lines 303-310
is_single_line_op(qasm_op_type) ==
    qasm_op_type \in {"WAIT", "DECLARE", "MAP"}

qasm_event(line_number, name, params, event_type) ==
    [line_number |-> line_number, name |-> name, params |-> params,
     event_type |-> event_type, duration |-> 0]

Raised(e) == [ok |-> FALSE, err |-> e]

\* a faulty variant of WrongParamCount: too few parameters pass
WrongParamCount_OnlyMore(qasm_op_name, n_params, expected_num_of_params) ==
    qasm_op_name # "qubit" /\ n_params > expected_num_of_params

\* lines 359-360
WrongParamCount(qasm_op_name, n_params, expected_num_of_params) ==
    qasm_op_name # "qubit" /\ n_params # expected_num_of_params

\* the body of the inner loop, lines 329-398, for segment e of a line with
\* n_events segments: the exception it raises or the event it appends
ParseOp(e, n_events, number, dict) ==
    IF e = <<>>
    THEN Raised(Exc("ValueError", "QASM operation cannot be empty",
                    "none", NoLine))
    ELSE
    LET qasm_op_name == get_qasm_op_name(e)
        qasm_op_params == get_qasm_op_params(e)
    IN  IF qasm_op_name \notin DOMAIN dict
        THEN Raised(Exc("SyntaxError", "unsuppported QASM operation",
                        "filename", number))
        ELSE
        LET qasm_op_type == dict[qasm_op_name].type
            expected_num_of_params == dict[qasm_op_name].parameters
        IN  IF is_single_line_op(qasm_op_type) /\ n_events # 1
            THEN Raised(Exc("SyntaxError", "should exclusively occupy a line",
                            "filename", number))
            ELSE IF qasm_op_name = "qubit" /\ Len(qasm_op_params) < 1
            THEN Raised(Exc("SyntaxError", "qubit should contain at least one parameter",
                            "filename", number))
            ELSE IF WrongParamCount(qasm_op_name, Len(qasm_op_params),
                                    expected_num_of_params)
            THEN Raised(Exc("SyntaxError", "unexpected number of parameters",
                            "filename", number))
            ELSE IF qasm_op_type = "WAIT" /\ expected_num_of_params = 1
            THEN IF is_int(qasm_op_params[1]) = FALSE
                 THEN Raised(Exc("SyntaxError", "parameter is not an integer",
                                 "filename", number))
                 ELSE IF IntOfWord(qasm_op_params[1]) < 0
                 \* line 387 raises se, which no statement has bound
                 THEN Raised(Exc("UnboundLocalError", "se referenced before assignment",
                                 "none", NoLine))
                 ELSE [ok |-> TRUE,
                       event |-> qasm_event(number, qasm_op_name,
                                    <<IntOfWord(qasm_op_params[1])>>,
                                    qasm_op_type)]
            ELSE [ok |-> TRUE,
                  event |-> qasm_event(number, qasm_op_name, qasm_op_params,
                                       qasm_op_type)]

\* lines 325-399 for one line: the events of the line, or the first exception
RECURSIVE ParseOpsFrom(_, _, _, _, _)
ParseOpsFrom(events, k, number, dict, raw_events) ==
    IF k > Len(events) THEN [ok |-> TRUE, raw_events |-> raw_events]
    ELSE LET r == ParseOp(events[k], Len(events), number, dict)
         IN IF r.ok
            THEN ParseOpsFrom(events, k + 1, number, dict,
                              Append(raw_events, r.event))
            ELSE r
ParseLine(line, dict) ==
    ParseOpsFrom(get_parallel_qasm_ops(line.content), 1, line.number, dict, <<>>)

\* lines 321-399: the raw event list of the program, or the first exception
RECURSIVE ParseLinesFrom(_, _, _, _)
ParseLinesFrom(lines, k, dict, acc) ==
    IF k > Len(lines) THEN [ok |-> TRUE, raw_event_list |-> acc]
    ELSE LET r == ParseLine(lines[k], dict)
         IN IF r.ok
            THEN ParseLinesFrom(lines, k + 1, dict, Append(acc, r.raw_events))
            ELSE [ok |-> FALSE, err |-> r.err, raw_event_list |-> acc]
ParseLines(lines, dict) == ParseLinesFrom(lines, 1, dict, <<>>)

-----------------------------------------------------------------------------
(* The Qubit Resolver: lines 461-552 *)

InSeq(x, s) == \E k \in 1..Len(s) : s[k] = x

\* extend_dec_qubit_list, lines 499-517: the declared list it leaves and the
\* exception it raises, if any
RECURSIVE ExtendFrom(_, _, _)
ExtendFrom(raw_event, k, declared) ==
    IF k > Len(raw_event.params) THEN [err |-> NoErr, declared |-> declared]
    ELSE IF InSeq(raw_event.params[k], declared)
    THEN [err |-> Exc("SyntaxError", "Redefinition", "filename",
                      raw_event.line_number),
          declared |-> declared]
    ELSE ExtendFrom(raw_event, k + 1, Append(declared, raw_event.params[k]))

extend_dec_qubit_list(raw_event, declared, physical) ==
    LET r == ExtendFrom(raw_event, 1, declared)
    IN IF r.err # NoErr THEN r
       ELSE IF Len(r.declared) > Len(physical)
       THEN [err |-> Exc("SyntaxError", "More qubits declared than available",
                         "filename", NoLine),
             declared |-> r.declared]
       ELSE r

\* phys_qubit in self.physical_qubits, for an int
InPhysical(n, physical) ==
    \E k \in 1..Len(physical) : physical[k].t = "int" /\ physical[k].v = n

\* a faulty variant of add_qubit_map: lines 543-550 left out
add_qubit_map_NoAvailable(raw_event, declared, map, physical) ==
    LET dec_qubit == raw_event.params[1]
        phys_qubit == raw_event.params[2]
    IN IF ~InSeq(dec_qubit, declared)
       THEN [err |-> Exc("SyntaxError", "undefined qubit", "filename",
                         raw_event.line_number),
             map |-> map]
       ELSE IF dec_qubit \in DOMAIN map
       THEN [err |-> Exc("SyntaxError", "remapping of the qubit", "filename",
                         raw_event.line_number),
             map |-> map]
       ELSE IF is_int(phys_qubit) = FALSE
       THEN [err |-> Exc("SyntaxError", "the target qubit is not an integer",
                         "filename", raw_event.line_number),
             map |-> map]
       ELSE [err |-> NoErr,
             map |-> [q \in (DOMAIN map) \cup {dec_qubit} |->
                         IF q = dec_qubit THEN IntOfWord(phys_qubit)
                         ELSE map[q]]]

\* a faulty variant of add_qubit_map: lines 528-532 left out
add_qubit_map_Remaps(raw_event, declared, map, physical) ==
    LET dec_qubit == raw_event.params[1]
        phys_qubit == raw_event.params[2]
    IN IF ~InSeq(dec_qubit, declared)
       THEN [err |-> Exc("SyntaxError", "undefined qubit", "filename",
                         raw_event.line_number),
             map |-> map]
       ELSE IF is_int(phys_qubit) = FALSE
       THEN [err |-> Exc("SyntaxError", "the target qubit is not an integer",
                         "filename", raw_event.line_number),
             map |-> map]
       ELSE IF ~InPhysical(IntOfWord(phys_qubit), physical)
       THEN [err |-> Exc("SyntaxError", "physical qubit is not available",
                         "filename", raw_event.line_number),
             map |-> map]
       ELSE [err |-> NoErr,
             map |-> [q \in (DOMAIN map) \cup {dec_qubit} |->
                         IF q = dec_qubit THEN IntOfWord(phys_qubit)
                         ELSE map[q]]]

\* add_qubit_map, lines 519-552: the map it leaves and the exception it raises
add_qubit_map(raw_event, declared, map, physical) ==
    LET dec_qubit == raw_event.params[1]
        phys_qubit == raw_event.params[2]
    IN IF ~InSeq(dec_qubit, declared)
       THEN [err |-> Exc("SyntaxError", "undefined qubit", "filename",
                         raw_event.line_number),
             map |-> map]
       ELSE IF dec_qubit \in DOMAIN map
       THEN [err |-> Exc("SyntaxError", "remapping of the qubit", "filename",
                         raw_event.line_number),
             map |-> map]
       ELSE IF is_int(phys_qubit) = FALSE
       THEN [err |-> Exc("SyntaxError", "the target qubit is not an integer",
                         "filename", raw_event.line_number),
             map |-> map]
       ELSE IF ~InPhysical(IntOfWord(phys_qubit), physical)
       THEN [err |-> Exc("SyntaxError", "physical qubit is not available",
                         "filename", raw_event.line_number),
             map |-> map]
       ELSE [err |-> NoErr,
             map |-> [q \in (DOMAIN map) \cup {dec_qubit} |->
                         IF q = dec_qubit THEN IntOfWord(phys_qubit)
                         ELSE map[q]]]

\* a faulty variant of PopAt: nothing is removed
PopAt_Keep(list, n) == list

\* list.pop(i) of a list of n items, i counted from 0
PopAt(list, n) == SubSeq(list, 1, n) \o SubSeq(list, n + 2, Len(list))

\* one pass of the while loop of build_qubit_map, lines 468-477: the for loop
\* over the events of line i, from its k-th event on.  st holds the event list,
\* the cursor, the declared list, the map and the exception raised, if any.
RECURSIVE BuildLineFrom(_, _, _, _)
BuildLineFrom(raw_events, k, st, physical) ==
    IF k > Len(raw_events) \/ st.err # NoErr THEN st
    ELSE LET raw_event == raw_events[k]
         IN IF raw_event.event_type = "DECLARE"
            THEN LET r == extend_dec_qubit_list(raw_event, st.declared, physical)
                 IN BuildLineFrom(raw_events, k + 1,
                      IF r.err # NoErr
                      THEN [st EXCEPT !.err = r.err, !.declared = r.declared]
                      ELSE IF st.i >= Len(st.list)
                      THEN [st EXCEPT !.declared = r.declared,
                                      !.err = Exc("IndexError", "pop index out of range",
                                                  "none", NoLine)]
                      ELSE [st EXCEPT !.declared = r.declared,
                                      !.list = PopAt(st.list, st.i)],
                      physical)
            ELSE IF raw_event.event_type = "MAP"
            THEN LET r == add_qubit_map(raw_event, st.declared, st.map, physical)
                 IN BuildLineFrom(raw_events, k + 1,
                      IF r.err # NoErr
                      THEN [st EXCEPT !.err = r.err]
                      ELSE IF st.i >= Len(st.list)
                      THEN [st EXCEPT !.map = r.map,
                                      !.err = Exc("IndexError", "pop index out of range",
                                                  "none", NoLine)]
                      ELSE [st EXCEPT !.map = r.map,
                                      !.list = PopAt(st.list, st.i)],
                      physical)
            ELSE BuildLineFrom(raw_events, k + 1, [st EXCEPT !.i = st.i + 1],
                               physical)

BuildPass(list, cursor, declared, map, physical) ==
    BuildLineFrom(list[cursor + 1], 1,
                  [list |-> list, i |-> cursor, declared |-> declared,
                   map |-> map, err |-> NoErr],
                  physical)

\* a faulty variant of IsChannelOp: line 491 without the measurement type
IsChannelOp_NoMsmt(event_type) == event_type \in {"RF", "FLUX"}

\* lines 490-491: the event is an RF, Flux or Measurement operation
IsChannelOp(event_type) == event_type \in {"RF", "FLUX", "MSMT"}

\* a faulty variant of MappedParams: every operand gets the first one's qubit
MappedParams_FirstOnly(params, map) ==
    [j \in 1..Len(params) |-> map[params[1]]]

\* lines 492-493: the physical qubits of the operands
MappedParams(params, map) ==
    [j \in 1..Len(params) |-> map[params[j]]]

\* map_qubits, lines 482-496.  The events are shared by raw_event_list and
\* timing_event_list, so line 494 changes them in both.
\* The inner loop over one line: the line as it is left in raw_event_list, the
\* timing events collected, and the KeyError of line 492, if any.
RECURSIVE MapLineFrom(_, _, _, _)
MapLineFrom(raw_events, k, map, timing_events) ==
    IF k > Len(raw_events)
    THEN [err |-> NoErr, raw_events |-> raw_events,
          timing_events |-> timing_events]
    ELSE LET raw_event == raw_events[k]
         IN IF raw_event.event_type = "WAIT"
            THEN MapLineFrom(raw_events, k + 1, map,
                             Append(timing_events, raw_event))
            ELSE IF IsChannelOp(raw_event.event_type)
            THEN IF \E j \in 1..Len(raw_event.params) :
                        raw_event.params[j] \notin DOMAIN map
                 THEN [err |-> Exc("KeyError", "qubit_map", "none", NoLine),
                       raw_events |-> raw_events,
                       timing_events |-> timing_events]
                 ELSE LET mapped ==
                            [raw_event EXCEPT !.params =
                                MappedParams(raw_event.params, map)]
                      IN MapLineFrom([raw_events EXCEPT ![k] = mapped], k + 1,
                                     map, Append(timing_events, mapped))
            ELSE MapLineFrom(raw_events, k + 1, map, timing_events)

RECURSIVE MapQubitsFrom(_, _, _, _)
MapQubitsFrom(list, k, map, timing_event_list_) ==
    IF k > Len(list)
    THEN [err |-> NoErr, raw_event_list |-> list,
          timing_event_list |-> timing_event_list_]
    ELSE LET r == MapLineFrom(list[k], 1, map, <<>>)
         IN IF r.err # NoErr
            THEN [err |-> r.err,
                  raw_event_list |-> [list EXCEPT ![k] = r.raw_events],
                  timing_event_list |-> timing_event_list_]
            ELSE MapQubitsFrom([list EXCEPT ![k] = r.raw_events], k + 1, map,
                               Append(timing_event_list_, r.timing_events))
map_qubits(list, map) == MapQubitsFrom(list, 1, map, <<>>)

-----------------------------------------------------------------------------
(* The Timing Assigner, lines 425-452, as far as the source goes *)

\* time_point(), lines 95-101
time_point ==
    [label |-> PyNone, absolute_time |-> PyNone, pre_waiting_time |-> PyNone,
     parallel_events |-> <<>>]

HasWaitEvent(list) ==
    \E k \in 1..Len(list) : \E j \in 1..Len(list[k]) :
        list[k][j].event_type = "WAIT"

-----------------------------------------------------------------------------
(* The compiler object and compile(), lines 168-193 *)

Entered(stage) == stages' = Append(stages, stage)
Fail(e) == pc' = "failed" /\ err' = e

\* no document has been read yet
NoData == [read |-> FALSE]

\* __init__, lines 168-179, with the two files the object names
InitWith(Configs, Files) ==
    /\ cfg \in Configs
    /\ file \in Files
    /\ pc = "idle"
    /\ err = NoErr
    /\ stages = <<>>
    /\ raw_lines = <<>>
    /\ prog_lines = <<>>
    /\ config_loaded = FALSE
    /\ qasm_op_dict = NoDict
    /\ physical_qubits = <<>>
    /\ cycle_time = PyNone
    /\ lut = PyNone
    /\ data = NoData
    /\ raw_event_list = <<>>
    /\ declared_qubits = <<>>
    /\ qubit_map = <<>>
    /\ timing_event_list = <<>>
    /\ timing_grid = <<>>
    /\ qumis_instructions = <<>>
    /\ i = 0

\* a faulty variant of NoInstructions: compile() starts with a list that
\* holds an instruction
NoInstructions_Leftover == <<"instruction">>

\* line 182: the list compile() starts with
NoInstructions == <<>>

\* compile() is called: line 182
Compile ==
    /\ pc \in {"idle", "failed", "done"}
    /\ pc' = "read_file"
    /\ err' = NoErr
    /\ stages' = <<"compile">>
    /\ qumis_instructions' = NoInstructions
    /\ UNCHANGED <<cfg, file, lut, data, raw_lines, prog_lines,
                   config_loaded, qasm_op_dict, physical_qubits, cycle_time,
                   raw_event_list, declared_qubits, qubit_map,
                   timing_event_list, timing_grid, i>>

\* read_file, lines 239-262
ReadFile ==
    /\ pc = "read_file"
    /\ Entered("read_file")
    /\ IF ~file.exists
       THEN /\ Fail(Exc("OSError", "Fail to open file", "none", NoLine))
            /\ UNCHANGED <<raw_lines, prog_lines>>
       ELSE /\ raw_lines' = RawLines(file.lines)
            /\ prog_lines' = ProgLines(file.lines)
            /\ pc' = "line_to_event"
            /\ UNCHANGED err
    /\ UNCHANGED <<cfg, file, lut, data, config_loaded, qasm_op_dict,
                   physical_qubits, cycle_time, raw_event_list,
                   declared_qubits, qubit_map, timing_event_list, timing_grid,
                   qumis_instructions, i>>

\* what load_config (lines 195-237) assigns, r being load_config(cfg) when the
\* configuration is not loaded yet
LoadConfigAssigns(r) ==
    /\ qasm_op_dict' = r.dict
    /\ physical_qubits' = IF r.set_pq THEN cfg.qubit_list ELSE physical_qubits
    /\ cycle_time' = IF r.set_ct THEN r.ct ELSE cycle_time
    /\ lut' = IF r.set_lut THEN cfg.lut ELSE lut
    /\ data' = cfg
    /\ config_loaded' = r.loaded

\* a faulty variant of AlreadyLoaded: load_config without lines 196-197
AlreadyLoaded_Never == FALSE

\* lines 196-197: load_config returns at once
AlreadyLoaded == config_loaded

LoadConfigSkipped ==
    UNCHANGED <<qasm_op_dict, physical_qubits, cycle_time, lut, data,
                config_loaded>>

\* line_to_event, lines 312-399, load_config included (line 320)
LineToEvent ==
    /\ pc = "line_to_event"
    /\ stages' = stages \o <<"line_to_event", "load_config">>
    /\ IF AlreadyLoaded
       THEN LoadConfigSkipped
       ELSE LoadConfigAssigns(load_config(cfg))
    /\ IF ~AlreadyLoaded /\ load_config(cfg).err # NoErr
       THEN /\ Fail(load_config(cfg).err)
            /\ UNCHANGED raw_event_list
       ELSE LET r == ParseLines(prog_lines, qasm_op_dict')
            IN /\ raw_event_list' = r.raw_event_list
               /\ IF r.ok THEN pc' = "build_qubit_map" /\ UNCHANGED err
                  ELSE Fail(r.err)
    /\ i' = 0        \* line 466: the cursor of build_qubit_map starts at 0
    /\ UNCHANGED <<cfg, file, raw_lines, prog_lines, declared_qubits, qubit_map,
                   timing_event_list, timing_grid, qumis_instructions>>

\* load_config called on its own
LoadConfig ==
    /\ pc \in {"idle", "failed", "done"}
    /\ stages' = <<"load_config">>
    /\ IF AlreadyLoaded
       THEN /\ LoadConfigSkipped
            /\ pc' = "idle" /\ err' = NoErr
       ELSE /\ LoadConfigAssigns(load_config(cfg))
            /\ IF load_config(cfg).err # NoErr
               THEN Fail(load_config(cfg).err)
               ELSE pc' = "idle" /\ err' = NoErr
    /\ UNCHANGED <<cfg, file, raw_lines, prog_lines, raw_event_list,
                   declared_qubits, qubit_map, timing_event_list, timing_grid,
                   qumis_instructions, i>>

\* build_qubit_map, lines 465-480: one pass of the while loop, or its exit
BuildQubitMap ==
    /\ pc = "build_qubit_map"
    /\ IF i < Len(raw_event_list)
       THEN LET st == BuildPass(raw_event_list, i, declared_qubits, qubit_map,
                                physical_qubits)
            IN /\ raw_event_list' = st.list
               /\ i' = st.i
               /\ declared_qubits' = st.declared
               /\ qubit_map' = st.map
               /\ IF st.err # NoErr THEN Fail(st.err)
                  ELSE UNCHANGED <<pc, err>>
       ELSE /\ pc' = "map_qubits"
            /\ i' = 0
            /\ UNCHANGED <<raw_event_list, declared_qubits, qubit_map, err>>
    /\ stages' = IF stages[Len(stages)] = "build_qubit_map" THEN stages
                 ELSE stages \o <<"resolve_qubit_name", "build_qubit_map">>
    /\ UNCHANGED <<cfg, file, lut, data, raw_lines, prog_lines,
                   config_loaded, qasm_op_dict, physical_qubits, cycle_time,
                   timing_event_list, timing_grid, qumis_instructions>>

\* map_qubits, lines 482-496
MapQubits ==
    /\ pc = "map_qubits"
    /\ Entered("map_qubits")
    /\ LET r == map_qubits(raw_event_list, qubit_map)
       IN /\ raw_event_list' = r.raw_event_list
          /\ timing_event_list' = r.timing_event_list
          /\ IF r.err # NoErr THEN Fail(r.err)
             ELSE pc' = "assign_timing_to_events" /\ UNCHANGED err
    /\ UNCHANGED <<cfg, file, lut, data, raw_lines, prog_lines,
                   config_loaded, qasm_op_dict, physical_qubits, cycle_time, declared_qubits,
                   qubit_map, timing_grid, qumis_instructions, i>>

\* assign_timing_to_events, lines 425-452.  At the first Wait event line 437
\* appends the open time point and line 440 reads timing_event.qasm_op_name,
\* an attribute qasm_event (lines 104-112) does not have.  The branch of the
\* other events (line 452) has no body in the source.
AssignTimingToEvents ==
    /\ pc = "assign_timing_to_events"
    /\ Entered("assign_timing_to_events")
    /\ IF HasWaitEvent(timing_event_list)
       THEN /\ timing_grid' = <<time_point>>
            /\ Fail(Exc("AttributeError", "qasm_op_name", "none", NoLine))
       ELSE /\ timing_grid' = <<>>
            /\ pc' = "compensate_channel_latency"
            /\ UNCHANGED err
    /\ UNCHANGED <<cfg, file, lut, data, raw_lines, prog_lines,
                   config_loaded, qasm_op_dict, physical_qubits, cycle_time, raw_event_list,
                   declared_qubits, qubit_map, timing_event_list,
                   qumis_instructions, i>>

\* a faulty variant of compensate_channel_latency: the first slot is lost
compensate_channel_latency_DropSlot(grid) ==
    IF grid = <<>> THEN grid ELSE Tail(grid)

\* compensate_channel_latency, lines 554-555: the body is pass
compensate_channel_latency(grid) == grid

\* compensate_channel_latency, lines 554-555, then line 191: compile() calls
\* gen_full_time_grid, and the class defines gen_time_grid (line 557) only
CompensateChannelLatency ==
    /\ pc = "compensate_channel_latency"
    /\ stages' = stages \o <<"compensate_channel_latency", "gen_full_time_grid">>
    /\ timing_grid' = compensate_channel_latency(timing_grid)
    /\ Fail(Exc("AttributeError", "gen_full_time_grid", "none", NoLine))
    /\ UNCHANGED <<cfg, file, lut, data, raw_lines, prog_lines,
                   config_loaded, qasm_op_dict, physical_qubits, cycle_time, raw_event_list,
                   declared_qubits, qubit_map, timing_event_list,
                   qumis_instructions, i>>

\* compensate_channel_latency called on its own, on the grid the last
\* compile() left
CompensateChannelLatencyCall ==
    /\ pc \in {"idle", "failed", "done"}
    /\ stages' = <<"compensate_channel_latency">>
    /\ timing_grid' = compensate_channel_latency(timing_grid)
    /\ pc' = "idle" /\ err' = NoErr
    /\ UNCHANGED <<cfg, file, lut, data, raw_lines, prog_lines,
                   config_loaded, qasm_op_dict, physical_qubits, cycle_time, raw_event_list,
                   declared_qubits, qubit_map, timing_event_list,
                   qumis_instructions, i>>

Step ==
    \/ Compile
    \/ ReadFile
    \/ LineToEvent
    \/ LoadConfig
    \/ BuildQubitMap
    \/ MapQubits
    \/ AssignTimingToEvents
    \/ CompensateChannelLatency

-----------------------------------------------------------------------------
(* The files the compiler object is constructed over *)

\* all sequences over S of length at most n
SeqsUpTo(S, n) == UNION {[1..m -> S] : m \in 0..n}

SourceFile(lines) == [exists |-> TRUE, lines |-> lines]
NoFile == [exists |-> FALSE, lines |-> <<>>]

ConfigDoc(ops, qubit_list, ct) ==
    [ops |-> ops, qubit_list |-> qubit_list, cycle_time |-> ct,
     lut |-> PyDict(1)]

\* source lines for the Qubit Resolver
ResolverLines ==
    { <<"qubit", " ", "q0", " ", "#", " ", "first", "\n">>,
      <<"Qubit", " ", "Q0", ",", " ", "q1", "\n">>,
      <<"qubit", " ", "q1", "\n">>,
      <<"map", " ", "q0", " ", "0", "\n">>,
      <<"Map", " ", "q1", ",", "+1", "\n">>,
      <<"map", " ", "q1", " ", "0", "\n">>,
      <<"map", " ", "q0", " ", "x", "\n">>,
      <<"map", " ", "q0", " ", "2", "\n">>,
      <<"measure", " ", "q0", " ", "|", " ", "Measure", " ", "q0", "\n">>,
      <<" ", "#", "comment", "\n">> }

ResolverFiles == {SourceFile(l) : l \in SeqsUpTo(ResolverLines, MaxLines)}

ResolverConfigs ==
    { ConfigDoc(<<>>, <<PyInt(0)>>, PyInt(1)),
      ConfigDoc(<<>>, <<PyInt(0), PyInt(1)>>, PyStr("5")) }

\* configuration documents for the Configuration Loader
UserItems ==
    { Item("Measure", OpSpec(2, "rf", NoDuration)),
      Item("MEASURE", OpSpec(1, "flux", 20)),
      Item("I", OpSpec(1, "measurement", 300)),
      Item("X180", OpSpec(1, "rf", 20)),
      Item("x180", OpSpec(1, "RF", 20)),
      Item("cz", OpSpec(2, "wait", 40)) }

DistinctKeys(ops) ==
    \A a, b \in 1..Len(ops) : a # b => ops[a].key # ops[b].key

LoaderConfigs ==
    { ConfigDoc(ops, ql, ct) :
        ops \in {o \in SeqsUpTo(UserItems, MaxUserOps) : DistinctKeys(o)},
        ql \in { <<PyInt(0), PyInt(1)>>, <<PyInt(0), PyStr("1")>> },
        ct \in { PyInt(1), PyInt(0), PyInt(-1), PyStr("5"), PyStr("fast"),
                 PyNone } }

LoaderFiles ==
    { NoFile,
      SourceFile(<< <<"qubit", " ", "q0", "\n">>,
                    <<"map", " ", "q0", " ", "0", "\n">>,
                    <<"X180", " ", "q0", "\n">> >>),
      SourceFile(<< <<"qubit", " ", "q0", "\n">>,
                    <<"map", " ", "q0", " ", "0", "\n">>,
                    <<"init_all", "\n">> >>) }

\* source lines for the Event Parser: up to MaxParallel operations joined by
\* the separator
Operations ==
    { <<>>,
      <<"i", " ", "5">>,
      <<"I", " ", "-1">>,
      <<"i", " ", "x">>,
      <<"init_all">>,
      <<"qubit", " ", "q1">>,
      <<"Qubit", " ", "q1", ",", "q2">>,
      <<"qubit">>,
      <<"map", " ", "q0", ",", "0">>,
      <<"map", " ", "q0">>,
      <<"measure", " ", "q0">>,
      <<"measure">>,
      <<"x180", " ", "q0">>,
      <<"h", " ", "q0">> }

RECURSIVE JoinBar(_)
JoinBar(ops) ==
    IF Len(ops) = 1 THEN ops[1]
    ELSE ops[1] \o <<" ", "|", " ">> \o JoinBar(Tail(ops))

ParserLines ==
    { JoinBar(ops) \o <<"\n">> :
        ops \in SeqsUpTo(Operations, MaxParallel) \ {<<>>} }

ParserFiles ==
    { SourceFile(<< <<"qubit", " ", "q0", "\n">>,
                    <<"map", " ", "q0", " ", "0", "\n">>,
                    l >>) : l \in ParserLines }

ParserConfigs ==
    { ConfigDoc(<<>>, <<PyInt(0), PyInt(1)>>, PyInt(1)),
      ConfigDoc(<< Item("X180", OpSpec(1, "rf", 20)),
                   Item("I", OpSpec(1, "flux", 40)) >>,
                <<PyInt(0), PyInt(1)>>, PyInt(1)),
      ConfigDoc(<< Item("Qubit", OpSpec(1, "rf", 20)) >>,
                <<PyInt(0), PyInt(1)>>, PyInt(1)) }

\* source lines for the Line Reader: blank lines, comments, text around them
ReaderLines ==
    { <<"\n">>,
      <<" ", "\t", "\n">>,
      <<"#", "\n">>,
      <<" ", "#", " ", "Comment", "\n">>,
      <<"Qubit", " ", "Q0", " ", "#", " ", "c", " ", "#", "d", "\n">>,
      <<" ", "map", " ", "q0", " ", "0", " ", "\n">>,
      <<"\t", "Measure", " ", "q0", "#", "\n">>,
      <<"measure", " ", "q0">> }

ReaderFiles == {SourceFile(l) : l \in SeqsUpTo(ReaderLines, MaxLines)}

ReaderConfigs == { ConfigDoc(<<>>, <<PyInt(0), PyInt(1)>>, PyInt(1)) }

\* programs for the Timing Assigner: two qubits declared and mapped, then
\* waits and measurements
TimingLines ==
    { <<"Init_all", "\n">>,
      <<"I", " ", "5", "\n">>,
      <<"Measure", " ", "q0", "\n">>,
      <<"Measure", " ", "q1", "\n">>,
      <<"measure", " ", "q0", " ", "|", " ", "measure", " ", "q1", "\n">> }

TimingFiles ==
    { SourceFile(<< <<"qubit", " ", "q0", " ", "q1", "\n">>,
                    <<"Map", " ", "q0", " ", "0", "\n">>,
                    <<"Map", " ", "q1", " ", "1", "\n">> >> \o l) :
        l \in SeqsUpTo(TimingLines, MaxSlotLines) }

TimingConfigs == { ConfigDoc(<<>>, <<PyInt(0), PyInt(1)>>, PyInt(1)) }

\* programs for map_qubits: two qubits declared and mapped crosswise, then
\* operations on them and on a qubit no line maps
RewriteLines ==
    { <<"Measure", " ", "q0", "\n">>,
      <<"cz", " ", "q1", ",", "q0", " ", "|", " ", "measure", " ", "q1", "\n">>,
      <<"I", " ", "5", "\n">>,
      <<"X180", " ", "q2", "\n">>,
      <<"measure", " ", "q1", " ", "|", " ", "cz", " ", "q0", ",", "q2", "\n">> }

RewriteFiles ==
    { SourceFile(<< <<"qubit", " ", "q0", " ", "q1", "\n">>,
                    <<"Map", " ", "q0", " ", "1", "\n">>,
                    <<"Map", " ", "q1", " ", "0", "\n">> >> \o l) :
        l \in SeqsUpTo(RewriteLines, MaxLines) }

RewriteConfigs ==
    { ConfigDoc(<< Item("CZ", OpSpec(2, "flux", 40)),
                   Item("X180", OpSpec(1, "rf", 20)) >>,
                <<PyInt(0), PyInt(1)>>, PyInt(1)) }

\* configuration documents for repeated loads
ReloadConfigs ==
    { ConfigDoc(<<>>, <<PyInt(0), PyInt(1)>>, PyInt(1)),
      [ConfigDoc(<< Item("Measure", OpSpec(2, "rf", NoDuration)) >>,
                 <<PyInt(0)>>, PyStr("5")) EXCEPT !.lut = PyDict(2)],
      ConfigDoc(<< Item("cz", OpSpec(2, "wait", 40)) >>,
                <<PyInt(1)>>, PyInt(2)),
      [ConfigDoc(<<>>, <<PyInt(0), PyStr("1")>>, PyInt(1))
           EXCEPT !.lut = PyDict(2)],
      ConfigDoc(<<>>, <<PyInt(1), PyInt(0)>>, PyInt(0)) }

ReloadFiles ==
    { SourceFile(<< <<"qubit", " ", "q0", "\n">>,
                    <<"map", " ", "q0", " ", "0", "\n">>,
                    <<"measure", " ", "q0", "\n">> >>) }

\* the file config_filename names (line 201) is rewritten between two calls
EditConfig ==
    /\ pc \in {"idle", "failed", "done"}
    /\ cfg' \in ReloadConfigs \ {cfg}
    /\ UNCHANGED <<file, pc, err, stages, raw_lines, prog_lines,
                   config_loaded, qasm_op_dict, physical_qubits, cycle_time,
                   lut, data, raw_event_list, declared_qubits, qubit_map,
                   timing_event_list, timing_grid, qumis_instructions, i>>

-----------------------------------------------------------------------------
(* Specifications *)

Init == InitWith(ResolverConfigs, ResolverFiles)
Next == Step
Spec == Init /\ [][Next]_vars

InitLoader == InitWith(LoaderConfigs, LoaderFiles)
NextLoader == Step
SpecLoader == InitLoader /\ [][NextLoader]_vars

InitParser == InitWith(ParserConfigs, ParserFiles)
NextParser == Step
SpecParser == InitParser /\ [][NextParser]_vars

InitReader == InitWith(ReaderConfigs, ReaderFiles)
NextReader == Step
SpecReader == InitReader /\ [][NextReader]_vars

InitTiming == InitWith(TimingConfigs, TimingFiles)
NextTiming == Step
SpecTiming == InitTiming /\ [][NextTiming]_vars

InitRewrite == InitWith(RewriteConfigs, RewriteFiles)
NextRewrite == Step
SpecRewrite == InitRewrite /\ [][NextRewrite]_vars

\* the same programs, the Latency Compensator being called on its own as well
InitLatency == InitWith(RewriteConfigs, RewriteFiles)
NextLatency == Step \/ CompensateChannelLatencyCall
SpecLatency == InitLatency /\ [][NextLatency]_vars

InitReload == InitWith(ReloadConfigs, ReloadFiles)
NextReload == Step \/ EditConfig
SpecReload == InitReload /\ [][NextReload]_vars

-----------------------------------------------------------------------------
(* Vocabulary of the properties *)

LastStage == IF stages = <<>> THEN "none" ELSE stages[Len(stages)]
InCompile == stages # <<>> /\ stages[1] = "compile"

\* load_config was the last method entered and raised
LoaderFailed == pc = "failed" /\ LastStage = "load_config" /\ ~config_loaded
\* the running compile() has been through the loops of line_to_event
ParserRan == InCompile /\ InSeq("line_to_event", stages) /\ config_loaded
\* the loops of line_to_event raised
ParserFailed == ParserRan /\ pc = "failed" /\ LastStage = "load_config"
\* the while loop of build_qubit_map has run to its end in this compile()
BuildDone ==
    InCompile /\ (pc = "map_qubits" \/ InSeq("map_qubits", stages))

\* the events line_to_event made of the program, before any was removed
ParsedEvents == ParseLines(prog_lines, qasm_op_dict).raw_event_list

\* line k of the parsed program is a Declare / Map event
IsDeclareLine(k) == ParsedEvents[k][1].event_type = "DECLARE"
IsMapLine(k) == ParsedEvents[k][1].event_type = "MAP"

\* qubit q is named by a Declare line before line k
DeclaredBefore(q, k) ==
    \E j \in 1..(k - 1) : IsDeclareLine(j) /\ InSeq(q, ParsedEvents[j][1].params)

\* line k declares a qubit that an earlier line, or the line itself at an
\* earlier place, declares
Redeclares(k) ==
    /\ IsDeclareLine(k)
    /\ LET params == ParsedEvents[k][1].params
       IN \E a \in 1..Len(params) :
            \/ DeclaredBefore(params[a], k)
            \/ \E b \in 1..(a - 1) : params[b] = params[a]

\* the while loop of build_qubit_map is at a line that holds one Map event
AtMapEvent ==
    /\ pc = "build_qubit_map"
    /\ i < Len(raw_event_list)
    /\ Len(raw_event_list[i + 1]) = 1
    /\ raw_event_list[i + 1][1].event_type = "MAP"
MapEvent == raw_event_list[i + 1][1]

-----------------------------------------------------------------------------
(* The Qubit Resolver *)

\* C1: after any accepted sequence of Declare and Map events the qubit map is
\* injective: no two distinct logical qubits have the same physical qubit (a
\* Map event to a physical qubit already assigned being rejected).
C1_QubitMapInjective ==
    \A a, b \in DOMAIN qubit_map : a # b => qubit_map[a] # qubit_map[b]

\* the qubit map is well formed: declared keys, listed integers as values
C2_MapWellFormed ==
    \A q \in DOMAIN qubit_map :
        /\ InSeq(q, declared_qubits)
        /\ qubit_map[q] \in Int
        /\ \E k \in 1..Len(physical_qubits) :
              physical_qubits[k] = PyInt(qubit_map[q])
\* the Map event at the cursor names a non-integer or unlisted physical qubit
C2_BadTarget ==
    \/ MapEvent.params[2] \notin IntWords
    \/ \A k \in 1..Len(physical_qubits) :
          physical_qubits[k] # PyInt(IntOfWord(MapEvent.params[2]))
C2_BadTargetRejected ==
    (AtMapEvent /\ C2_BadTarget)
        => /\ pc' = "failed"
           /\ err'.kind = "SyntaxError"
           /\ qubit_map' = qubit_map
C3_RedeclarationFails ==
    BuildDone => \A k \in 1..Len(ParsedEvents) : ~Redeclares(k)

\* C4: the number of declared logical qubits never exceeds the number of
\* configured physical qubits, in any reachable state.
C4_DeclaredWithinPhysical ==
    config_loaded => Len(declared_qubits) <= Len(physical_qubits)

\* C6: a Map event whose logical qubit no earlier Declare event declared makes
\* the compilation fail with SyntaxError at the Map line, wherever the line
\* stands; so the declaration pass never runs to its end on a program that
\* holds such a line.
C6_UndeclaredMapFails ==
    BuildDone =>
        \A k \in 1..Len(ParsedEvents) :
            IsMapLine(k) => DeclaredBefore(ParsedEvents[k][1].params[1], k)

\* one step of the compiler, as C7 constrains it
C7_Step ==
    /\ \A q \in DOMAIN qubit_map :
          q \in DOMAIN qubit_map' /\ qubit_map'[q] = qubit_map[q]
    /\ (AtMapEvent /\ MapEvent.params[1] \in DOMAIN qubit_map)
          => (pc' = "failed" /\ err'.kind = "SyntaxError")
    /\ (AtMapEvent /\ pc' = "failed")
          => (qubit_map' = qubit_map /\ declared_qubits' = declared_qubits)
SourceSyntaxError ==
    /\ ParserRan
    /\ pc = "failed"
    /\ err.kind = "SyntaxError"
    /\ LastStage \in {"load_config", "build_qubit_map"}

\* C15: a SyntaxError of the Event Parser or the Qubit Resolver carries the
\* name of the source file and the number of a line of it, and the Event
\* Parser has turned no line from that one on into events.
C15_SyntaxErrorsCarryFileAndLine ==
    SourceSyntaxError =>
        /\ err.filename = "filename"
        /\ \E k \in 1..Len(prog_lines) : err.lineno = prog_lines[k].number
        /\ LastStage = "load_config" =>
               \A k \in 1..Len(raw_event_list) :
                   raw_event_list[k][1].line_number < err.lineno

\* C22: when the while loop of build_qubit_map has run to its end, no
\* Declare and no Map event is left in the event list, whatever lines the
\* program holds before them.
C22_NoDeclareOrMapLeft ==
    BuildDone =>
        \A k \in 1..Len(raw_event_list) :
            \A a \in 1..Len(raw_event_list[k]) :
                raw_event_list[k][a].event_type \notin {"DECLARE", "MAP"}

-----------------------------------------------------------------------------
(* The Event Parser *)

\* the operations of program line k, as get_parallel_qasm_ops splits them
OpsOfLine(k) == get_parallel_qasm_ops(prog_lines[k].content)
\* operation e is a Wait, Declare or Map operation of the operation table
IsExclusiveOp(e) ==
    /\ e # <<>>
    /\ SplitWords(e)[1] \in DOMAIN qasm_op_dict
    /\ qasm_op_dict[SplitWords(e)[1]].type \in {"WAIT", "DECLARE", "MAP"}
\* line k holds the separator and a Wait, Declare or Map operation
ParallelWithExclusive(k) ==
    /\ Len(OpsOfLine(k)) >= 2
    /\ \E a \in 1..Len(OpsOfLine(k)) : IsExclusiveOp(OpsOfLine(k)[a])
\* an empty operation stands before the first Wait, Declare or Map operation
EmptyBeforeExclusive(k) ==
    \E a \in 1..Len(OpsOfLine(k)) :
        /\ OpsOfLine(k)[a] = <<>>
        /\ \A b \in 1..(a - 1) : ~IsExclusiveOp(OpsOfLine(k)[b])
\* line k is the first line of the program with the separator and a Wait,
\* Declare or Map operation, and the lines before it are parsed without error
FirstParallelWithExclusive(k) ==
    /\ ParallelWithExclusive(k)
    /\ \A j \in 1..(k - 1) :
          ~ParallelWithExclusive(j) /\ ParseLine(prog_lines[j], qasm_op_dict).ok

\* C5, as stated: a line that holds the separator and a Wait, Declare or Map
\* operation always fails in the Event Parser with SyntaxError, whatever its
\* other operations are (valid, invalid or empty).
C5_ExclusiveAlwaysSyntaxError ==
    ParserRan =>
        \A k \in 1..Len(prog_lines) :
            FirstParallelWithExclusive(k)
                => (ParserFailed /\ err.kind = "SyntaxError")

\* C5, amended: such a line always fails in the Event Parser; with SyntaxError
\* carrying the number of the line unless an empty operation stands before
\* its first Wait, Declare or Map operation, and then with SyntaxError or with
\* the ValueError of the empty operation.
C5_ExclusiveAlwaysFails ==
    ParserRan =>
        \A k \in 1..Len(prog_lines) :
            FirstParallelWithExclusive(k) =>
                /\ ParserFailed
                /\ IF EmptyBeforeExclusive(k)
                   THEN err.kind \in {"SyntaxError", "ValueError"}
                   ELSE /\ err.kind = "SyntaxError"
                        /\ err.lineno = prog_lines[k].number
                        /\ err.filename = "filename"
\* a Map operation beside another operation was rejected
C5_Witness ==
    /\ ParserFailed
    /\ err.site = "should exclusively occupy a line"
    /\ \E k \in 1..Len(prog_lines) :
          /\ FirstParallelWithExclusive(k)
          /\ \E a \in 1..Len(OpsOfLine(k)) :
                /\ IsExclusiveOp(OpsOfLine(k)[a])
                /\ SplitWords(OpsOfLine(k)[a])[1] = "map"

\* line_to_event of the running compile() has returned
JustParsed == ParserRan /\ pc = "build_qubit_map" /\ LastStage = "load_config"

\* operation e has an entry in the operation table
IsKnownOp(e) == e # <<>> /\ get_qasm_op_name(e) \in DOMAIN qasm_op_dict
OpEntry(e) == qasm_op_dict[get_qasm_op_name(e)]

\* operation e is not the declare operation and has not the number of
\* operands its entry gives, or is the declare operation and has none
MiscountsByType(e) ==
    /\ IsKnownOp(e)
    /\ IF OpEntry(e).type = "DECLARE"
       THEN Len(get_qasm_op_params(e)) < 1
       ELSE Len(get_qasm_op_params(e)) # OpEntry(e).parameters
\* the same, the operation named qubit standing for the declare operation
MiscountsByName(e) ==
    /\ IsKnownOp(e)
    /\ IF get_qasm_op_name(e) = "qubit"
       THEN Len(get_qasm_op_params(e)) < 1
       ELSE Len(get_qasm_op_params(e)) # OpEntry(e).parameters

\* line k is the first line with a miscounting operation, and the lines
\* before it are parsed without error
FirstMiscountingByType(k) ==
    /\ \E a \in 1..Len(OpsOfLine(k)) : MiscountsByType(OpsOfLine(k)[a])
    /\ \A j \in 1..(k - 1) : ParseLine(prog_lines[j], qasm_op_dict).ok
FirstMiscountingByName(k) ==
    /\ \E a \in 1..Len(OpsOfLine(k)) : MiscountsByName(OpsOfLine(k)[a])
    /\ \A j \in 1..(k - 1) : ParseLine(prog_lines[j], qasm_op_dict).ok
\* an empty operation stands before the first miscounting operation of line k
EmptyBeforeMiscount(k) ==
    \E a \in 1..Len(OpsOfLine(k)) :
        /\ OpsOfLine(k)[a] = <<>>
        /\ \A b \in 1..(a - 1) : ~MiscountsByName(OpsOfLine(k)[b])

IsBadWaitLine(k) ==
    /\ Len(OpsOfLine(k)) = 1
    /\ IsKnownOp(OpsOfLine(k)[1])
    /\ OpEntry(OpsOfLine(k)[1]).type = "WAIT"
    /\ OpEntry(OpsOfLine(k)[1]).parameters = 1
    /\ Len(get_qasm_op_params(OpsOfLine(k)[1])) = 1
    /\ LET operand == get_qasm_op_params(OpsOfLine(k)[1])[1]
       IN operand \notin IntWords \/ IntOfWord(operand) < 0
FirstBadWaitLine(k) ==
    /\ IsBadWaitLine(k)
    /\ \A j \in 1..(k - 1) : ParseLine(prog_lines[j], qasm_op_dict).ok

\* C14: a Wait operation with one operand that is not a non-negative integer,
\* be it no integer or a negative one, is rejected by the Event Parser with
\* SyntaxError carrying the number of its line; and the operand of every Wait
\* event line_to_event returns is a non-negative integer.
C14_BadWaitIsSyntaxError ==
    /\ ParserRan =>
          \A k \in 1..Len(prog_lines) :
              FirstBadWaitLine(k) =>
                  /\ ParserFailed
                  /\ err.kind = "SyntaxError"
                  /\ err.lineno = prog_lines[k].number
    /\ JustParsed =>
          \A k \in 1..Len(raw_event_list) :
              \A a \in 1..Len(raw_event_list[k]) :
                  LET ev == raw_event_list[k][a]
                  IN (ev.event_type = "WAIT" /\ Len(ev.params) = 1)
                         => (ev.params[1] \in Int /\ ev.params[1] >= 0)

-----------------------------------------------------------------------------
(* The Configuration Loader *)

\* the three ways a configuration document is invalid
BadCategory ==
    \E k \in 1..Len(cfg.ops) :
        cfg.ops[k].spec.type \notin {"rf", "flux", "measurement"}
BadQubitList ==
    \E k \in 1..Len(cfg.qubit_list) : cfg.qubit_list[k].t # "int"
CycleTimeIsNone == cfg.cycle_time.t = "NoneType"
BadCycleTime ==
    \/ CycleTimeIsNone
    \/ cfg.cycle_time.t = "str" /\ cfg.cycle_time.v \notin IntWords
    \/ cfg.cycle_time.t = "str" /\ cfg.cycle_time.v \in IntWords
          /\ IntOfWord(cfg.cycle_time.v) <= 0
    \/ cfg.cycle_time.t \in {"int", "float"} /\ cfg.cycle_time.v <= 0
InvalidConfig == BadCategory \/ BadQubitList \/ BadCycleTime

\* the running compile() is past read_file
PastReadFile == InCompile /\ InSeq("line_to_event", stages)

\* C8, as stated: with an invalid configuration document compile() fails in
\* the Configuration Loader before the source file is opened and before any
\* source line is read.
C8_FailsBeforeFileIsRead ==
    (InCompile /\ LoaderFailed) => ~InSeq("read_file", stages)

\* C8, amended: with an invalid configuration document and a source file that
\* can be opened, compile() fails in the Configuration Loader after read_file
\* has read every line of the source file and before any line is parsed into
\* an event.
C8_FailsBeforeLinesAreParsed ==
    (PastReadFile /\ InvalidConfig) =>
        /\ LoaderFailed
        /\ stages = <<"compile", "read_file", "line_to_event", "load_config">>
        /\ raw_lines = RawLines(file.lines)
        /\ prog_lines = ProgLines(file.lines)
        /\ raw_event_list = <<>>
\* compile() failed on a cycle time that is not positive, the lines read
C8_Witness ==
    /\ InCompile
    /\ LoaderFailed
    /\ err.site = "cycle time is not a positive number"
    /\ prog_lines # <<>>

\* load_config has just been called
LoaderRan == LastStage = "load_config"

C10_UserEntryWins ==
    (DOMAIN qasm_op_dict # {}) =>
        \A k \in 1..Len(cfg.ops) : \A d \in 1..Len(default_op_dict) :
            LET lk == Lower(cfg.ops[k].key)
            IN (Lower(default_op_dict[d].key) = lk) =>
                /\ qasm_op_dict[lk] # default_op_dict[d].spec
                /\ \E j \in 1..Len(cfg.ops) :
                      /\ Lower(cfg.ops[j].key) = lk
                      /\ qasm_op_dict[lk].parameters = cfg.ops[j].spec.parameters
                      /\ qasm_op_dict[lk].duration = cfg.ops[j].spec.duration
                      /\ qasm_op_dict[lk].type =
                            (CASE cfg.ops[j].spec.type = "rf" -> "RF"
                               [] cfg.ops[j].spec.type = "flux" -> "FLUX"
                               [] cfg.ops[j].spec.type = "measurement" -> "MSMT")
\* the table of a document that names Measure in capitals holds its entry
C10_Witness ==
    /\ DOMAIN qasm_op_dict # {}
    /\ \E k \in 1..Len(cfg.ops) : cfg.ops[k].key = "MEASURE"
    /\ qasm_op_dict["measure"].type = "FLUX"

\* what load_config leaves on the object for the later stages
LoadedTables == <<qasm_op_dict, physical_qubits, cycle_time, lut>>

C11_Step ==
    (LoadConfig \/ LineToEvent) =>
        /\ config_loaded => config_loaded' /\ LoadedTables' = LoadedTables
        /\ data = cfg => LoadedTables' = LoadedTables

\* C11: a call of load_config that follows a successful load changes none of
\* the operation table, the physical qubit list, the cycle time and the lookup
\* tables, whatever the document holds by then; and a call that reads the
\* document the previous call read leaves the four as that call left them.
C11_LoadIdempotent == [][C11_Step]_vars

\* line_to_event of a later compile() has just called load_config, the
\* configuration being loaded and the document rewritten since it was read
C11_Witness ==
    /\ pc = "build_qubit_map"
    /\ i = 0
    /\ config_loaded
    /\ data # NoData
    /\ data # cfg
    /\ LoadedTables # <<load_config(cfg).dict, cfg.qubit_list,
                         load_config(cfg).ct, cfg.lut>>

-----------------------------------------------------------------------------
(* The Line Reader *)

\* read_file of the running compile() has filled prog_lines
ReaderRan == InCompile /\ InSeq("read_file", stages) /\ file.exists

\* the positions of source line L that hold text: not whitespace, and no
\* comment marker at or before them
TextPositions(L) ==
    {p \in 1..Len(L) : ~IsSpace(L[p]) /\ \A q \in 1..p : L[q] # "#"}
Least(S) == CHOOSE x \in S : \A y \in S : x <= y
Greatest(S) == CHOOSE x \in S : \A y \in S : y <= x
\* L from its first to its last text position, in lower case
NormalizedText(L) ==
    [m \in 1..(Greatest(TextPositions(L)) - Least(TextPositions(L)) + 1) |->
        Lower(L[Least(TextPositions(L)) + m - 1])]

\* C12: the lines read_file keeps are, in source order, exactly the source
\* lines that hold text before their first comment marker; each record
\* carries the number the line has in the file (counted from 0) and the
\* line's text without comment and surrounding whitespace, in lower case.
C12_ProgLinesAreTheTextLines ==
    ReaderRan =>
        /\ \A j \in 1..Len(prog_lines) : \A k \in 1..Len(prog_lines) :
               j < k => prog_lines[j].number < prog_lines[k].number
        /\ {prog_lines[j].number : j \in 1..Len(prog_lines)}
               = {k - 1 : k \in {n \in 1..Len(file.lines) :
                                    TextPositions(file.lines[n]) # {}}}
        /\ \A j \in 1..Len(prog_lines) :
               prog_lines[j].content
                   = NormalizedText(file.lines[prog_lines[j].number + 1])

\* a line was dropped before a kept one, and a kept line lost a comment
C12_Witness ==
    /\ ReaderRan
    /\ \E j \in 1..Len(prog_lines) : prog_lines[j].number > j - 1
    /\ \E j \in 1..Len(prog_lines) :
           /\ InSeq("#", file.lines[prog_lines[j].number + 1])
           /\ IsSpace(file.lines[prog_lines[j].number + 1][1])
    /\ \E n \in 1..Len(file.lines) :
           /\ InSeq("Comment", file.lines[n])
           /\ \A j \in 1..Len(prog_lines) : prog_lines[j].number # n - 1

-----------------------------------------------------------------------------
(* The Timing Assigner *)

\* assign_timing_to_events has been entered by the running compile()
TimingRan == InCompile /\ InSeq("assign_timing_to_events", stages)

\* the resolved stream: the events of timing_event_list, line after line
RECURSIVE Flat(_)
Flat(list) == IF list = <<>> THEN <<>> ELSE Head(list) \o Flat(Tail(list))
ResolvedStream == Flat(timing_event_list)

WaitPositions ==
    {p \in 1..Len(ResolvedStream) : ResolvedStream[p].event_type = "WAIT"}
NumWaits == Cardinality(WaitPositions)
\* the position of the s-th Wait event of the stream
NthWait(s) ==
    CHOOSE p \in WaitPositions :
        Cardinality({q \in WaitPositions : q <= p}) = s
\* the channel operations after the s-th Wait event and before the next
SlotEvents(s) ==
    SelectSeq(SubSeq(ResolvedStream, NthWait(s) + 1,
                     IF s = NumWaits THEN Len(ResolvedStream)
                     ELSE NthWait(s + 1) - 1),
              LAMBDA ev : IsChannelOp(ev.event_type))
\* the time a Wait event asks for
WaitTime(ev) ==
    IF ev.params = <<>> THEN INIT_WAITING_TIME ELSE ev.params[1]

\* C16: the Timing Assigner returns a timing grid of one time point per Wait
\* event of the resolved stream, in order, and the parallel events of each
\* are the channel operations between its Wait event and the next one, or the
\* end of the stream.
C16_OneSlotPerWait ==
    TimingRan =>
        /\ ~(pc = "failed" /\ LastStage = "assign_timing_to_events")
        /\ Len(timing_grid) = NumWaits
        /\ \A s \in 1..NumWaits :
               timing_grid[s].parallel_events = SlotEvents(s)

\* C17: every time point of the timing grid has a pre-waiting time, the one
\* its Wait event asks for: the operand, or INIT_WAITING_TIME for init_all.
C17_PreWaitIsWaitOperand ==
    TimingRan =>
        \A s \in 1..Len(timing_grid) :
            /\ timing_grid[s].pre_waiting_time # PyNone
            /\ s <= NumWaits
            /\ timing_grid[s].pre_waiting_time
                   = PyInt(WaitTime(ResolvedStream[NthWait(s)]))

RECURSIVE SumOfPreWaits(_)
SumOfPreWaits(s) ==
    IF s = 0 THEN 0
    ELSE SumOfPreWaits(s - 1) + timing_grid[s].pre_waiting_time.v

\* C18: every time point of the timing grid has an absolute time, the sum of
\* the pre-waiting times up to and including its own, so that the absolute
\* times never decrease along the grid.
C18_AbsoluteTimeIsRunningSum ==
    TimingRan =>
        /\ \A s \in 1..Len(timing_grid) :
               /\ timing_grid[s].absolute_time # PyNone
               /\ timing_grid[s].absolute_time = PyInt(SumOfPreWaits(s))
        /\ \A s \in 1..Len(timing_grid) : \A t \in s..Len(timing_grid) :
               timing_grid[s].absolute_time.v <= timing_grid[t].absolute_time.v

-----------------------------------------------------------------------------
(* compile() as a whole *)

\* the first events of the lines before line k that are of type event_type
EarlierOfType(events, k, event_type) ==
    {events[j][1] : j \in {n \in 1..(k - 1) :
                              events[n][1].event_type = event_type}}

\* line k declares qubits no earlier line declares, each once
DeclaresAnew(events, k) ==
    LET params == events[k][1].params
    IN /\ \A a, b \in 1..Len(params) : a # b => params[a] # params[b]
       /\ \A a \in 1..Len(params) :
              \A ev \in EarlierOfType(events, k, "DECLARE") :
                  ~InSeq(params[a], ev.params)
\* line k maps a declared qubit no earlier line maps to a qubit of the
\* qubit list no earlier line maps to
MapsAnew(events, k) ==
    LET params == events[k][1].params
    IN /\ \E ev \in EarlierOfType(events, k, "DECLARE") :
              InSeq(params[1], ev.params)
       /\ params[2] \in IntWords
       /\ InPhysical(IntOfWord(params[2]), cfg.qubit_list)
       /\ \A ev \in EarlierOfType(events, k, "MAP") :
              /\ ev.params[1] # params[1]
              /\ IntOfWord(ev.params[2]) # IntOfWord(params[2])
\* every operand of the channel operations of line k is mapped by an earlier
\* line
OperandsMapped(events, k) ==
    \A a \in 1..Len(events[k]) :
        IsChannelOp(events[k][a].event_type) =>
            \A b \in 1..Len(events[k][a].params) :
                \E ev \in EarlierOfType(events, k, "MAP") :
                    ev.params[1] = events[k][a].params[b]

\* the configuration document is valid and the source file is a program
\* without fault: it exists, every line parses under the operation table of
\* the document, no qubit is declared twice or beyond the qubit list, every
\* Map is to a free listed qubit, and every operand is mapped
ValidInput ==
    /\ file.exists
    /\ ~InvalidConfig
    /\ LET parsed == ParseLines(ProgLines(file.lines), load_config(cfg).dict)
           events == parsed.raw_event_list
       IN /\ parsed.ok
          /\ Len(Flat([k \in 1..Len(events) |->
                          IF events[k][1].event_type = "DECLARE"
                          THEN events[k][1].params ELSE <<>>]))
                 <= Len(cfg.qubit_list)
          /\ \A k \in 1..Len(events) :
                 /\ events[k][1].event_type = "DECLARE" => DeclaresAnew(events, k)
                 /\ events[k][1].event_type = "MAP" => MapsAnew(events, k)
                 /\ OperandsMapped(events, k)

\* C19: compile() of a valid program under a valid configuration document
\* does not raise: a compile() that raised was given an input with a fault.
C19_ValidInputCompiles ==
    (InCompile /\ pc = "failed") => ~ValidInput

\* compile() has just been called
CompileStarts == InCompile /\ pc = "read_file"

\* C20: when compile() is called, the object holds no declared qubit and no
\* qubit mapping, whatever the calls before it were.
C20_CompileStartsClean ==
    CompileStarts => (declared_qubits = <<>> /\ DOMAIN qubit_map = {})

\* C21: when compile() has raised, at whatever stage, the instruction list
\* of the object is empty.
C21_NoPartialOutput ==
    (InCompile /\ pc = "failed") => qumis_instructions = <<>>

\* a compile() that follows another one on the same object has raised in
\* the Qubit Resolver
C21_Witness ==
    /\ InCompile
    /\ pc = "failed"
    /\ LastStage = "build_qubit_map"
    /\ timing_event_list # <<>>
    /\ qumis_instructions = <<>>

\* every operand of the channel operations of line k is mapped by some line
OperandsMappedSomewhere(events, k) ==
    \A a \in 1..Len(events[k]) :
        IsChannelOp(events[k][a].event_type) =>
            \A b \in 1..Len(events[k][a].params) :
                \E ev \in EarlierOfType(events, Len(events) + 1, "MAP") :
                    ev.params[1] = events[k][a].params[b]

\* the configuration document is valid and the source file is a program the
\* Event Parser accepts, in which no qubit is declared twice or beyond the
\* qubit list, every Map is of a qubit declared before it to a free listed
\* qubit, and every operand is mapped by a line, before or after its use
ResolvableInput ==
    /\ file.exists
    /\ ~InvalidConfig
    /\ LET parsed == ParseLines(ProgLines(file.lines), load_config(cfg).dict)
           events == parsed.raw_event_list
       IN /\ parsed.ok
          /\ Len(Flat([k \in 1..Len(events) |->
                          IF events[k][1].event_type = "DECLARE"
                          THEN events[k][1].params ELSE <<>>]))
                 <= Len(cfg.qubit_list)
          /\ \A k \in 1..Len(events) :
                 /\ events[k][1].event_type = "DECLARE" => DeclaresAnew(events, k)
                 /\ events[k][1].event_type = "MAP" => MapsAnew(events, k)
                 /\ OperandsMappedSomewhere(events, k)

\* C23: the Qubit Resolver accepts every program whose operands are all
\* declared and validly mapped, wherever its Declare and Map lines stand among
\* the operation lines: a compile() that raised in build_qubit_map or in
\* map_qubits was given a program with a fault.
C23_ResolutionIgnoresLineOrder ==
    (InCompile /\ pc = "failed"
        /\ LastStage \in {"build_qubit_map", "map_qubits"})
            => ~ResolvableInput

-----------------------------------------------------------------------------
(* Operand rewriting *)

ChannelTypes == {"RF", "FLUX", "MSMT"}

\* a step of map_qubits
MapQubitsStep == pc = "map_qubits" /\ pc' # "map_qubits"

\* an operand of a channel operation of the event list is in no mapping
SomeOperandUnmapped ==
    \E k \in 1..Len(raw_event_list) : \E a \in 1..Len(raw_event_list[k]) :
        /\ raw_event_list[k][a].event_type \in ChannelTypes
        /\ \E b \in 1..Len(raw_event_list[k][a].params) :
              raw_event_list[k][a].params[b] \notin DOMAIN qubit_map

C24_Step ==
    MapQubitsStep =>
        IF SomeOperandUnmapped
        THEN pc' = "failed" /\ err'.kind = "KeyError"
        ELSE /\ pc' = "assign_timing_to_events"
             /\ \A k \in 1..Len(raw_event_list) :
                    \A a \in 1..Len(raw_event_list[k]) :
                        raw_event_list[k][a].event_type \in ChannelTypes =>
                            LET old == raw_event_list[k][a].params
                                new == raw_event_list'[k][a].params
                            IN /\ Len(new) = Len(old)
                               /\ \A b \in 1..Len(old) :
                                      /\ new[b] = qubit_map[old[b]]
                                      /\ InPhysical(new[b], physical_qubits)
             /\ \A k \in 1..Len(timing_event_list') :
                    \A a \in 1..Len(timing_event_list'[k]) :
                        timing_event_list'[k][a].event_type \in ChannelTypes =>
                            \E c \in 1..Len(raw_event_list'[k]) :
                                timing_event_list'[k][a] = raw_event_list'[k][c]

\* C24: when map_qubits returns, the operands of every RF, Flux and
\* Measurement event are, position by position, the physical qubits the
\* qubit map gives the logical operands the event had, each a member of the
\* qubit list, and the channel events handed to the Timing Assigner are these
\* events; when an operand is in no mapping, map_qubits raises KeyError.
C24_OperandsRewritten == [][C24_Step]_vars

\* map_qubits has rewritten an operation of two operands on two qubits
C24_Witness ==
    /\ InCompile
    /\ LastStage = "map_qubits"
    /\ pc = "assign_timing_to_events"
    /\ \E k \in 1..Len(timing_event_list) :
          \E a \in 1..Len(timing_event_list[k]) :
              /\ timing_event_list[k][a].name = "cz"
              /\ timing_event_list[k][a].params = <<0, 1>>

-----------------------------------------------------------------------------
(* The Latency Compensator *)

\* the step runs compensate_channel_latency, inside compile() or on its own
CompensatorStep ==
    \/ pc = "compensate_channel_latency" /\ stages' # stages
    \/ stages' = <<"compensate_channel_latency">>

\* C25: the Latency Compensator changes at most time offsets: after it runs
\* the timing grid has the same slots in the same order, and every slot holds
\* the same events in the same order as before.
C25_SlotsAndEventsKept ==
    [][CompensatorStep =>
        /\ Len(timing_grid') = Len(timing_grid)
        /\ \A k \in 1..Len(timing_grid) :
              /\ timing_grid'[k].label = timing_grid[k].label
              /\ timing_grid'[k].parallel_events =
                    timing_grid[k].parallel_events]_vars
\* the compensator has run on a grid that holds a slot
C25_Witness ==
    /\ stages = <<"compensate_channel_latency">>
    /\ timing_grid # <<>>

\* the events of a line that map_qubits passes on: Wait and channel events
IsTimingEvent(e) == e.event_type \in {"WAIT"} \cup ChannelTypes
TimingEventsOf(line) == SelectSeq(line, IsTimingEvent)

\* event new is event old but for the operands of a channel operation
SameButOperands(old, new) ==
    /\ new.name = old.name
    /\ new.line_number = old.line_number
    /\ new.event_type = old.event_type
    /\ new.duration = old.duration
    /\ Len(new.params) = Len(old.params)
    /\ old.event_type = "WAIT" => new = old

C26_Step ==
    (MapQubitsStep /\ pc' = "assign_timing_to_events")
        => /\ Len(timing_event_list') = Len(raw_event_list)
           /\ Len(raw_event_list') = Len(raw_event_list)
           /\ \A k \in 1..Len(raw_event_list) :
                 LET old == TimingEventsOf(raw_event_list[k])
                     new == timing_event_list'[k]
                 IN /\ Len(new) = Len(old)
                    /\ \A a \in 1..Len(old) : SameButOperands(old[a], new[a])
\* C26: operand rewriting (map_qubits) preserves the shape of the stream: its
\* output has one entry per line remaining in the event list, in the same
\* order, events within a line keep their relative order and line numbers,
\* and Wait events pass through with name and operand unchanged; only operands
\* of channel-operation events are replaced.
C26_ShapePreserved == [][C26_Step]_vars
\* map_qubits has rewritten a program with a two-event line and a Wait line
C26_Witness ==
    /\ LastStage = "map_qubits"
    /\ pc = "assign_timing_to_events"
    /\ \E k \in 1..Len(timing_event_list) :
          /\ Len(timing_event_list[k]) = 2
          /\ timing_event_list[k][1].event_type = "FLUX"
          /\ timing_event_list[k][2].event_type = "MSMT"
    /\ \E k \in 1..Len(timing_event_list) :
          /\ Len(timing_event_list[k]) = 1
          /\ timing_event_list[k][1].event_type = "WAIT"
          /\ timing_event_list[k][1].line_number = 4

-----------------------------------------------------------------------------
(* The categories of the operation table *)

\* the built-in entries of category Wait, Declare and Map, by lowered key
BuiltinControlKeys == {"i", "init_all", "qubit", "map"}
BuiltinControlSpec(key) ==
    CASE key = "i" -> OpSpec(1, "WAIT", NoDuration)
      [] key = "init_all" -> OpSpec(0, "WAIT", NoDuration)
      [] key = "qubit" -> OpSpec(-1, "DECLARE", NoDuration)
      [] key = "map" -> OpSpec(2, "MAP", NoDuration)

ControlEntriesAreBuiltins ==
    \A key \in DOMAIN qasm_op_dict :
        qasm_op_dict[key].type \in {"WAIT", "DECLARE", "MAP"}
            => /\ key \in BuiltinControlKeys
               /\ qasm_op_dict[key] = BuiltinControlSpec(key)

WaitEventsAreBuiltins ==
    \A k \in 1..Len(timing_event_list) :
        \A a \in 1..Len(timing_event_list[k]) :
            LET e == timing_event_list[k][a]
            IN e.event_type = "WAIT"
                 => \/ e.name = "i" /\ Len(e.params) = 1
                    \/ e.name = "init_all" /\ Len(e.params) = 0

\* C27: after a successful configuration load every operation-table entry of
\* category Wait, Declare or Map is one of the built-ins (i, init_all, qubit,
\* map), user entries receiving category RF, Flux or Measurement only; so
\* every Wait event reaching the Timing Assigner is the one-operand form or
\* init_all, and the 'unsupported instruction' failure of the Timing Assigner
\* never happens.
C27_ControlCategoriesBuiltin ==
    /\ config_loaded => ControlEntriesAreBuiltins
    /\ WaitEventsAreBuiltins
    /\ err.site # "unsupported instruction"
\* the Timing Assigner has met init_all under a table with a user entry
C27_Witness ==
    /\ TimingRan
    /\ config_loaded
    /\ "x180" \in DOMAIN qasm_op_dict
    /\ qasm_op_dict["x180"].type = "RF"
    /\ \E k \in 1..Len(timing_event_list) :
          /\ timing_event_list[k] # <<>>
          /\ timing_event_list[k][1].event_type = "WAIT"
          /\ timing_event_list[k][1].name = "init_all"

-----------------------------------------------------------------------------
(* The loop of build_qubit_map *)

\* the while loop of build_qubit_map is about to run a pass
LoopPass == pc = "build_qubit_map" /\ i < Len(raw_event_list)
LineAtCursor == raw_event_list[i + 1]

\* what line_to_event guarantees of the line at the cursor
LineAsParsed ==
    /\ Len(LineAtCursor) >= 1
    /\ (\E a \in 1..Len(LineAtCursor) :
            LineAtCursor[a].event_type \in {"DECLARE", "MAP"})
         => Len(LineAtCursor) = 1

\* the pass removes the line at the cursor and leaves the cursor
RemovesLine ==
    /\ raw_event_list' = PopAt(raw_event_list, i)
    /\ Len(raw_event_list') = Len(raw_event_list) - 1
    /\ i' = i
\* the pass leaves the list and moves the cursor on, once for each event
AdvancesCursor ==
    /\ raw_event_list' = raw_event_list
    /\ i' = i + Len(LineAtCursor)
    /\ i' > i

C28_Pass ==
    LoopPass
        => /\ LineAsParsed
           /\ \/ pc' = "failed" /\ err'.kind # "IndexError"
              \/ pc' = "build_qubit_map" /\ (RemovesLine \/ AdvancesCursor)
\* C28: build_qubit_map terminates on every event list the Event Parser
\* produces: every line holds at least one event and a Declare or Map line
\* exactly one, so each pass of the loop removes one line or advances the
\* cursor (the lines left from the cursor on get fewer with every pass), and
\* the loop ends without indexing past the end of the list.
C28_LoopTerminates == [](err.kind # "IndexError") /\ [][C28_Pass]_vars
\* the loop has removed lines and its cursor has passed the end of the list
C28_Witness ==
    /\ pc = "build_qubit_map"
    /\ i > Len(raw_event_list)
    /\ raw_event_list # <<>>
    /\ qubit_map # <<>>

=============================================================================
